---- MODULE Spec2Model ----
(***************************************************************************)
(* State-machine model of the BlueCon session/notification core            *)
(* (custom_components/bluecon/bluecon/BlueConAPI.py and                    *)
(* notifications/NotificationBuilder.py).                                  *)
(*                                                                         *)
(* Processes: the calls of the cooperative async domain (Tasks) and the    *)
(* listener threads created by startNotificationListener (Threads).  A     *)
(* step of a process runs from one await (or blocking call) to the next.   *)
(***************************************************************************)
EXTENDS Integers, Sequences, FiniteSets, TLC

\* ---------------------------------------------------------------- bounds
MaxTasks == 2          \* concurrent calls of the async domain
MaxThreads == 2        \* listener Thread objects one process may create
MaxDeliveries == 4     \* messages the provider delivers in one behaviour
MaxRefresh == 2        \* refresh exchanges with the OAuth service
MaxTime == 1           \* clock ticks
MaxRestarts == 1       \* process restarts over the same stores
MaxRegistrations == 2  \* provider registrations
MaxGrants == 2         \* password-grant exchanges with the OAuth service
MaxSignal == 6         \* highest wirelessSignal a device reports
TokenLifetime == 2     \* ticks a token issued by the OAuth service lives

Tasks == 1..MaxTasks
Threads == (MaxTasks + 1)..(MaxTasks + MaxThreads)
Procs == Tasks \cup Threads

\* ------------------------------------------------------------- constants
None == 0                                  \* Python's None
HttpStatuses == {200, 500}                 \* response.status of a request
NoToken == [id |-> -1, exp |-> -1]
NoMsg == [pid |-> <<>>, type |-> "none"]
NoNotif == [variant |-> "none", ack |-> FALSE]
NoReturn == [call |-> "none", status |-> None, value |-> "none"]
NoSensor == [wirelessSignal |-> None, native_value |-> "none"]

\* The push messages the provider may deliver: data_message.persistent_id
\* and notification['FermaxNotificationType'].
Messages ==
    { [pid |-> <<1>>, type |-> "Call"],
      [pid |-> <<1, 2>>, type |-> "CallEnd"],
      [pid |-> <<3>>, type |-> "Other"],
      [pid |-> <<3>>, type |-> "call"],
      [pid |-> <<3>>, type |-> "CallEnded"] }
PersistentIds == { m.pid : m \in Messages }

\* Endpoint of the authenticated request a call issues after it got a token.
SimpleCalls == {"getPairings", "getUserInfo", "openDoor", "getDeviceInfo"}
Endpoints ==
    {"pairings", "userinfo", "opendoor", "deviceinfo", "callregistry",
     "photocall", "ack", "apptoken"}
EndpointOf(c) ==
    CASE c = "getPairings" -> "pairings"
      [] c = "getUserInfo" -> "userinfo"
      [] c = "openDoor" -> "opendoor"
      [] c = "getDeviceInfo" -> "deviceinfo"
      [] OTHER -> "none"

VARIABLES
    now,             \* the clock
    tokenStore,      \* IOAuthTokenStorage: the stored OAuthToken
    refreshes,       \* OAuthService.updateOAuthToken exchanges so far
    exchanges,       \* per stored token id: refresh exchanges made for it
    grants,          \* OAuthService.createOAuthToken exchanges so far
    credStore,       \* INotificationInfoStorage credentials (None or a value)
    idStore,         \* INotificationInfoStorage persistent ids
    deviceId,        \* self.deviceId
    listenerThread,  \* self.__listenerThread (None: attribute not set)
    registrations,   \* AndroidFCM.register calls that returned credentials
    pc,              \* per process: where it is
    call,            \* per process: the API call it runs
    req,             \* per process: endpoint of the request being prepared/sent
    tok,             \* per process: local oAuthToken
    msg,             \* per thread: the message on_notification handles
    notif,           \* per thread: blueConNotification
    creds,           \* per task: local credentials of registerAppToken
    lastStop,        \* what the last stopNotificationListener call gave
    lastReturn,      \* what the last answered simple call returned, until the next call
    delivered,       \* history: persistent ids in provider delivery order
    callbacks,       \* history: per persistent id, notificationCallback calls
    ackOutcome,      \* history: per persistent id, how its acknowledgment ended
    restarts,        \* history: process restarts
    sensor           \* the wifi sensor entity: signal last read, native value

vars ==
    << now, tokenStore, refreshes, exchanges, grants, credStore, idStore,
       deviceId,
       listenerThread, registrations, pc, call, req, tok, msg, notif, creds,
       lastStop, lastReturn, delivered, callbacks, ackOutcome, restarts, sensor >>

oauthVars == << tokenStore, refreshes, exchanges, grants >>
storeVars == << credStore, idStore >>
histVars == << delivered, callbacks, lastStop, lastReturn, ackOutcome >>
clientVars == << deviceId, listenerThread, registrations, creds >>

\* ------------------------------------------------------------ OAuth token
\* OAuthToken.isExpired(): the token's expiry has been reached.
isExpired(t) == t.exp <= now

\* OAuthService.updateOAuthToken answering: a fresh token.
updateOAuthToken(n) == [id |-> n, exp |-> now + TokenLifetime]

\* The value the await in line 101 binds: the stored token.
retrieveOAuthToken == tokenStore

\* Mutant: the test of line 102 inverted.
needsRefresh_Inverted(t) == ~isExpired(t)

\* What __getOrRefreshOAuthToken does with the retrieved token (line 102).
needsRefresh(t) == isExpired(t)

\* What storeOAuthToken(oAuthToken) leaves in the store (line 104).
storeOAuthToken(t) == t

\* An exception leaves the call of process p.  In a task it reaches the
\* caller of the API method.  In a listener thread it leaves on_notification
\* and enters PushReceiver.listen, which is not part of this repository:
\* listen either lets it end the thread or goes on listening.
Raise(p) ==
    /\ \/ /\ p \in Tasks
          /\ pc' = [pc EXCEPT ![p] = "idle"]
       \/ /\ p \in Threads
          /\ \E next \in {"listening", "dead"} : pc' = [pc EXCEPT ![p] = next]
    /\ call' = [call EXCEPT ![p] = "none"]
    /\ req' = [req EXCEPT ![p] = "none"]
    /\ tok' = [tok EXCEPT ![p] = NoToken]
    /\ IF p \in Threads
       THEN /\ msg' = [msg EXCEPT ![p] = NoMsg]
            /\ notif' = [notif EXCEPT ![p] = NoNotif]
       ELSE UNCHANGED << msg, notif >>

\* __getOrRefreshOAuthToken, lines 101-102 (and 105 when not expired):
\* the token is read from the store; an expired one goes to the refresh,
\* any other is returned and attached to the request at once.
GetOrRefreshRetrieve(p) ==
    /\ pc[p] = "retrieve"
    /\ tok' = [tok EXCEPT ![p] = retrieveOAuthToken]
    /\ pc' = [pc EXCEPT ![p] =
                 IF needsRefresh(retrieveOAuthToken) THEN "update" ELSE "http"]
    /\ UNCHANGED << now, oauthVars, storeVars, clientVars, call, req,
                    msg, notif, histVars, restarts, sensor >>

\* Mutant: a failed refresh exchange swallowed, the request going out with
\* the token that was read.
GetOrRefreshUpdate_Swallowed(p) ==
    /\ pc[p] = "update"
    /\ refreshes < MaxRefresh
    /\ refreshes' = refreshes + 1
    /\ exchanges' = [exchanges EXCEPT ![tok[p].id] = @ + 1]
    /\ \/ /\ tok' = [tok EXCEPT ![p] = updateOAuthToken(refreshes + 1)]
          /\ pc' = [pc EXCEPT ![p] = "store"]
       \/ /\ pc' = [pc EXCEPT ![p] = "http"]
          /\ UNCHANGED tok
    /\ UNCHANGED << now, tokenStore, grants, storeVars, clientVars, call, req, msg,
                    notif, histVars, restarts, sensor >>

\* line 103: the refresh exchange; it answers with a new token or raises.
GetOrRefreshUpdate(p) ==
    /\ pc[p] = "update"
    /\ refreshes < MaxRefresh
    /\ refreshes' = refreshes + 1
    /\ exchanges' = [exchanges EXCEPT ![tok[p].id] = @ + 1]
    /\ \/ /\ tok' = [tok EXCEPT ![p] = updateOAuthToken(refreshes + 1)]
          /\ pc' = [pc EXCEPT ![p] = "store"]
          /\ UNCHANGED << call, req, msg, notif, ackOutcome >>
       \/ /\ Raise(p)
          /\ ackOutcome' =
                IF p \in Threads
                THEN [ackOutcome EXCEPT ![msg[p].pid] = "refresh failed"]
                ELSE ackOutcome
    /\ UNCHANGED << now, tokenStore, grants, storeVars, clientVars, delivered,
                    callbacks, lastStop, lastReturn, restarts, sensor >>

\* lines 104-105: the new token is stored and returned.
GetOrRefreshStore(p) ==
    /\ pc[p] = "store"
    /\ tokenStore' = storeOAuthToken(tok[p])
    /\ pc' = [pc EXCEPT ![p] = "http"]
    /\ UNCHANGED << now, refreshes, exchanges, grants, storeVars, clientVars, call,
                    req, tok, msg, notif, histVars, restarts, sensor >>

\* ------------------------------------------------- simple authenticated calls
\* getPairings, getUserInfo, openDoor, getDeviceInfo: the header expression
\* awaits __getOrRefreshOAuthToken before the request is sent.
BeginSimpleCall(p) ==
    /\ p \in Tasks
    /\ pc[p] = "idle"
    /\ \E c \in SimpleCalls :
          /\ call' = [call EXCEPT ![p] = c]
          /\ req' = [req EXCEPT ![p] = EndpointOf(c)]
    /\ pc' = [pc EXCEPT ![p] = "retrieve"]
    /\ lastReturn' = NoReturn
    /\ UNCHANGED << now, oauthVars, storeVars, clientVars, tok, msg, notif,
                    delivered, callbacks, lastStop, ackOutcome, restarts, sensor >>

\* Mutant: openDoor raising on a status other than 200.
openDoorReturn_Raising(status) == IF status = 200 THEN "true" ELSE "raised"

\* openDoor, line 128: response.status == 200.
openDoorReturn(status) == IF status = 200 THEN "true" ELSE "false"

\* getDeviceInfo, lines 248-251: a DeviceInfo for status 200, else None.
getDeviceInfoReturn(status) == IF status = 200 THEN "DeviceInfo" ELSE "None"

\* What simple call c returns for a response with the given status:
\* getPairings and getUserInfo (lines 112, 119) parse the body whatever the
\* status is.
ReturnOf(c, status) ==
    CASE c = "openDoor" -> openDoorReturn(status)
      [] c = "getDeviceInfo" -> getDeviceInfoReturn(status)
      [] OTHER -> "parsed"

\* The request of a simple call is answered and the call returns, or the
\* request fails in transport and the call raises.
SimpleResponse(p) ==
    /\ p \in Tasks
    /\ pc[p] = "http"
    /\ call[p] \in SimpleCalls
    /\ \/ /\ \E status \in HttpStatuses :
                lastReturn' = [call |-> call[p], status |-> status,
                               value |-> ReturnOf(call[p], status)]
          /\ pc' = [pc EXCEPT ![p] = "idle"]
          /\ call' = [call EXCEPT ![p] = "none"]
          /\ req' = [req EXCEPT ![p] = "none"]
          /\ tok' = [tok EXCEPT ![p] = NoToken]
          /\ UNCHANGED << msg, notif >>
       \/ /\ Raise(p)
          /\ UNCHANGED lastReturn
    /\ UNCHANGED << now, oauthVars, storeVars, clientVars, delivered,
                    callbacks, lastStop, ackOutcome, restarts, sensor >>

\* ------------------------------------------------------------ getLastPicture
\* lines 222-229: the call-registry request.
BeginGetLastPicture(p) ==
    /\ p \in Tasks
    /\ pc[p] = "idle"
    /\ call' = [call EXCEPT ![p] = "getLastPicture"]
    /\ req' = [req EXCEPT ![p] = "callregistry"]
    /\ pc' = [pc EXCEPT ![p] = "retrieve"]
    /\ lastReturn' = NoReturn
    /\ UNCHANGED << now, oauthVars, storeVars, clientVars, tok, msg, notif,
                    delivered, callbacks, lastStop, ackOutcome, restarts, sensor >>

\* lines 230-242: with a latest call log the photo request follows, with a
\* token of its own (line 239); without one the call returns None.
GetLastPictureResponse(p) ==
    /\ p \in Tasks
    /\ pc[p] = "http"
    /\ call[p] = "getLastPicture"
    /\ \/ /\ req[p] = "callregistry"
          /\ req' = [req EXCEPT ![p] = "photocall"]
          /\ pc' = [pc EXCEPT ![p] = "retrieve"]
          /\ tok' = [tok EXCEPT ![p] = NoToken]
          /\ UNCHANGED << call, msg, notif >>
       \/ Raise(p)
    /\ UNCHANGED << now, oauthVars, storeVars, clientVars, histVars,
                    restarts, sensor >>

\* ---------------------------------------------------------- registerAppToken
\* AndroidFCM.register answering: the credentials of the n-th registration.
AndroidFCMregister(n) == n

\* Mutant: line 157 registering whatever was retrieved.
mustRegister_Always(c) == TRUE

\* line 157: the provider registration is made only without stored credentials.
mustRegister(c) == c = None

\* After line 167 (or when deviceId was set): the app-token request.
ToAppTokenRequest(p) ==
    /\ req' = [req EXCEPT ![p] = "apptoken"]
    /\ pc' = [pc EXCEPT ![p] = "retrieve"]

\* line 144, and line 156 when self.deviceId is None.
RegisterAppTokenEnter(p) ==
    IF deviceId = None
    THEN /\ pc' = [pc EXCEPT ![p] = "register"]
         /\ creds' = [creds EXCEPT ![p] = credStore]
         /\ UNCHANGED req
    ELSE /\ ToAppTokenRequest(p)
         /\ UNCHANGED creds

BeginRegisterAppToken(p) ==
    /\ p \in Tasks
    /\ pc[p] = "idle"
    /\ call' = [call EXCEPT ![p] = "registerAppToken"]
    /\ RegisterAppTokenEnter(p)
    /\ UNCHANGED << now, oauthVars, storeVars, deviceId, listenerThread,
                    registrations, tok, msg, notif, histVars, restarts, sensor >>

\* lines 157-167: register with the provider and store the credentials when
\* none were retrieved; self.deviceId is set from the credentials.
RegisterCredentials(p) ==
    /\ p \in Tasks
    /\ pc[p] = "register"
    /\ IF mustRegister(creds[p])
       THEN \/ /\ registrations < MaxRegistrations
               /\ registrations' = registrations + 1
               /\ credStore' = AndroidFCMregister(registrations + 1)
               /\ deviceId' = AndroidFCMregister(registrations + 1)
               /\ ToAppTokenRequest(p)
               /\ creds' = [creds EXCEPT ![p] = None]
               /\ UNCHANGED << call, tok, msg, notif >>
            \/ /\ Raise(p)      \* AndroidFCM.register raises
               /\ creds' = [creds EXCEPT ![p] = None]
               /\ UNCHANGED << credStore, deviceId, registrations >>
       ELSE /\ deviceId' = creds[p]
            /\ ToAppTokenRequest(p)
            /\ creds' = [creds EXCEPT ![p] = None]
            /\ UNCHANGED << credStore, registrations, call, tok, msg, notif >>
    /\ UNCHANGED << now, oauthVars, idStore, listenerThread, histVars,
                    restarts, sensor >>

\* line 180: the app-token request is answered (or fails in transport).
\* Inside startNotificationListener the thread is created next.
AppTokenResponse(p) ==
    /\ p \in Tasks
    /\ pc[p] = "http"
    /\ req[p] = "apptoken"
    /\ \/ /\ call[p] = "registerAppToken"
          /\ pc' = [pc EXCEPT ![p] = "idle"]
          /\ call' = [call EXCEPT ![p] = "none"]
          /\ req' = [req EXCEPT ![p] = "none"]
          /\ tok' = [tok EXCEPT ![p] = NoToken]
          /\ UNCHANGED << msg, notif >>
       \/ /\ call[p] = "startNotificationListener"
          /\ pc' = [pc EXCEPT ![p] = "spawn"]
          /\ req' = [req EXCEPT ![p] = "none"]
          /\ tok' = [tok EXCEPT ![p] = NoToken]
          /\ UNCHANGED << call, msg, notif >>
       \/ Raise(p)
    /\ UNCHANGED << now, oauthVars, storeVars, clientVars, histVars,
                    restarts, sensor >>

\* ------------------------------------------------- startNotificationListener
\* A Thread object the bound still allows to create.
FreeThreads == { t \in Threads : pc[t] \in {"none", "dead"} }

\* lines 185-187: without stored credentials registerAppToken(True) runs
\* first.
BeginStartNotificationListener(p) ==
    /\ p \in Tasks
    /\ pc[p] = "idle"
    /\ FreeThreads # {}
    /\ call' = [call EXCEPT ![p] = "startNotificationListener"]
    /\ IF credStore = None
       THEN RegisterAppTokenEnter(p)
       ELSE /\ pc' = [pc EXCEPT ![p] = "spawn"]
            /\ UNCHANGED << req, creds >>
    /\ UNCHANGED << now, oauthVars, storeVars, deviceId, listenerThread,
                    registrations, tok, msg, notif, histVars, restarts, sensor >>

\* lines 214-216: the listener thread is created and started; the new
\* Thread object takes the first identity that is free.
SpawnListenerThread(p) ==
    /\ p \in Tasks
    /\ pc[p] = "spawn"
    /\ FreeThreads # {}
    /\ LET t == CHOOSE f \in FreeThreads : \A g \in FreeThreads : f <= g
       IN  /\ listenerThread' = t
           /\ pc' = [pc EXCEPT ![p] = "idle", ![t] = "starting"]
    /\ call' = [call EXCEPT ![p] = "none"]
    /\ UNCHANGED << now, oauthVars, storeVars, deviceId, registrations, creds,
                    req, tok, msg, notif, histVars, restarts, sensor >>

\* listener_thread, lines 190-198: the receiver is built from the stored
\* credentials and persistent ids, and listens.
listener_thread(t) ==
    /\ t \in Threads
    /\ pc[t] = "starting"
    /\ pc' = [pc EXCEPT ![t] = "listening"]
    /\ UNCHANGED << now, oauthVars, storeVars, clientVars, call, req, tok,
                    msg, notif, histVars, restarts, sensor >>

\* Mutant: a stop that ends the listener thread before it reports.
stopNotificationListener_Closing(p) ==
    /\ p \in Tasks
    /\ pc[p] = "idle"
    /\ listenerThread # None
    /\ pc' = [pc EXCEPT ![listenerThread] = "dead"]
    /\ lastStop' = "false"
    /\ UNCHANGED << now, oauthVars, storeVars, clientVars, call, req, tok,
                    msg, notif, delivered, callbacks, ackOutcome, lastReturn, restarts, sensor >>

\* stopNotificationListener, lines 219-220: join(10.0), then is_alive().
\* Without the attribute the call raises AttributeError.
stopNotificationListener(p) ==
    /\ p \in Tasks
    /\ pc[p] = "idle"
    /\ lastStop' =
          IF listenerThread = None THEN "error"
          ELSE IF pc[listenerThread] \in {"none", "dead"} THEN "false"
          ELSE "true"
    /\ UNCHANGED << now, oauthVars, storeVars, clientVars, pc, call, req, tok,
                    msg, notif, delivered, callbacks, ackOutcome, lastReturn, restarts, sensor >>

\* ------------------------------------------------------------ on_notification
\* Python's `idstr in x` for two strings: idstr occurs in x.
IsSubstring(s, x) ==
    \E i \in 0..(Len(x) - Len(s)) : SubSeq(x, i + 1, i + Len(s)) = s

\* line 205: received_persistent_ids is not None and
\* any(idstr in x for x in received_persistent_ids).
alreadyReceived(idstr, ids) == \E x \in ids : IsSubstring(idstr, x)

\* line 208: what storePersistentId(idstr) leaves in the store.
storePersistentId(idstr, ids) == ids \cup {idstr}

\* Mutant: the else branch of line 12 missing.
fromNotification_NoElse(type) ==
    IF type = "Call" THEN "CallNotification" ELSE "CallEndNotification"

\* NotificationBuilder.fromNotification, lines 8-13: the class built for a
\* discriminator, or the exception raised.
fromNotification(type) ==
    IF type = "Call" THEN "CallNotification"
    ELSE IF type = "CallEnd" THEN "CallEndNotification"
    ELSE "NotImplementedError"

\* Mutant: a receiver that hands over the next message while the callback
\* of the one before has not run yet.
on_notification_Reentrant(t, m) ==
    /\ t \in Threads
    /\ pc[t] \in {"listening", "callback"}
    /\ credStore # None
    /\ Len(delivered) < MaxDeliveries
    /\ delivered' = Append(delivered, m.pid)
    /\ IF alreadyReceived(m.pid, idStore)
       THEN UNCHANGED << pc, msg, notif, call >>
       ELSE /\ pc' = [pc EXCEPT ![t] = "record"]
            /\ msg' = [msg EXCEPT ![t] = m]
            /\ notif' = [notif EXCEPT ![t] = NoNotif]
            /\ call' = [call EXCEPT ![t] = "none"]
    /\ UNCHANGED << now, oauthVars, storeVars, clientVars, req, tok,
                    callbacks, lastStop, lastReturn, ackOutcome, restarts, sensor >>

\* lines 201-206: the provider delivers message m to listening thread t; a
\* message whose id is found in the stored ids is dropped.
on_notification(t, m) ==
    /\ t \in Threads
    /\ pc[t] = "listening"
    /\ credStore # None
    /\ Len(delivered) < MaxDeliveries
    /\ delivered' = Append(delivered, m.pid)
    /\ IF alreadyReceived(m.pid, idStore)
       THEN UNCHANGED << pc, msg >>
       ELSE /\ pc' = [pc EXCEPT ![t] = "record"]
            /\ msg' = [msg EXCEPT ![t] = m]
    /\ UNCHANGED << now, oauthVars, storeVars, clientVars, call, req, tok,
                    notif, callbacks, lastStop, lastReturn, ackOutcome, restarts, sensor >>

\* Mutant: line 208 missing, the handler goes straight to the builder.
RecordPersistentId_Skipped(t) ==
    /\ t \in Threads
    /\ pc[t] = "record"
    /\ pc' = [pc EXCEPT ![t] = "decode"]
    /\ UNCHANGED << now, oauthVars, storeVars, clientVars, call, req, tok,
                    msg, notif, histVars, restarts, sensor >>

\* line 208: the id is stored.
RecordPersistentId(t) ==
    /\ t \in Threads
    /\ pc[t] = "record"
    /\ idStore' = storePersistentId(msg[t].pid, idStore)
    /\ pc' = [pc EXCEPT ![t] = "decode"]
    /\ UNCHANGED << now, oauthVars, credStore, clientVars, call, req, tok,
                    msg, notif, histVars, restarts, sensor >>

\* Mutant: line 133 missing, every notification acknowledged.
afterDecode_AlwaysAck(n) == "retrieve"

\* Where on_notification goes after line 210 built notification n:
\* acknowledgeNotification (line 133) sends the acknowledgment only when
\* n.shouldAcknowledge(); otherwise the callback is next.
afterDecode(n) == IF n.ack THEN "retrieve" ELSE "callback"

\* line 210 and line 133: the notification is built, or the builder raises.
DecodeNotification(t) ==
    /\ t \in Threads
    /\ pc[t] = "decode"
    /\ IF fromNotification(msg[t].type) = "NotImplementedError"
       THEN Raise(t)
       ELSE \E a \in BOOLEAN :
               LET n == [variant |-> fromNotification(msg[t].type), ack |-> a]
               IN  /\ notif' = [notif EXCEPT ![t] = n]
                   /\ pc' = [pc EXCEPT ![t] = afterDecode(n)]
                   /\ call' = [call EXCEPT ![t] = "acknowledgeNotification"]
                   /\ req' = [req EXCEPT ![t] = IF n.ack THEN "ack" ELSE "none"]
                   /\ UNCHANGED << tok, msg >>
    /\ UNCHANGED << now, oauthVars, storeVars, clientVars, histVars,
                    restarts, sensor >>

\* History value for an acknowledgment answered with the given status.
ackAnswered(status) == IF status = 200 THEN "200" ELSE "not 200"

\* Mutant: the callback made to depend on the acknowledgment's result.
afterAckStatus_OnlyOk(status) ==
    IF status = 200 THEN "callback" ELSE "listening"

\* Where on_notification goes when the acknowledgment request was answered
\* with the given status: line 141 returns a boolean that line 211 drops.
afterAckStatus(status) == "callback"

\* lines 135-141: the acknowledgment request is answered, or fails in
\* transport and raises.
AckResponse(t) ==
    /\ t \in Threads
    /\ pc[t] = "http"
    /\ req[t] = "ack"
    /\ \/ \E status \in HttpStatuses :
            /\ pc' = [pc EXCEPT ![t] = afterAckStatus(status)]
            /\ req' = [req EXCEPT ![t] = "none"]
            /\ tok' = [tok EXCEPT ![t] = NoToken]
            /\ ackOutcome' = [ackOutcome EXCEPT ![msg[t].pid] = ackAnswered(status)]
            /\ UNCHANGED << call, msg, notif >>
       \/ /\ Raise(t)
          /\ ackOutcome' = [ackOutcome EXCEPT ![msg[t].pid] = "transport error"]
    /\ UNCHANGED << now, oauthVars, storeVars, clientVars, delivered,
                    callbacks, lastStop, lastReturn, restarts, sensor >>

\* line 212: the callback is invoked with the notification.
NotificationCallback(t) ==
    /\ t \in Threads
    /\ pc[t] = "callback"
    /\ callbacks' = [callbacks EXCEPT ![msg[t].pid] = @ + 1]
    /\ pc' = [pc EXCEPT ![t] = "listening"]
    /\ call' = [call EXCEPT ![t] = "none"]
    /\ msg' = [msg EXCEPT ![t] = NoMsg]
    /\ notif' = [notif EXCEPT ![t] = NoNotif]
    /\ UNCHANGED << now, oauthVars, storeVars, clientVars, req, tok,
                    delivered, lastStop, lastReturn, ackOutcome, restarts, sensor >>

\* ------------------------------------------------------------ process restart
\* The process ends (a crash or a shutdown: the daemon threads end with it)
\* and a new client is constructed (__init__, lines 84-95) over the same
\* token and notification-info stores.
Restart ==
    /\ restarts < MaxRestarts
    /\ restarts' = restarts + 1
    /\ pc' = [p \in Procs |-> IF p \in Tasks THEN "idle" ELSE "none"]
    /\ call' = [p \in Procs |-> "none"]
    /\ req' = [p \in Procs |-> "none"]
    /\ tok' = [p \in Procs |-> NoToken]
    /\ msg' = [p \in Threads |-> NoMsg]
    /\ notif' = [p \in Threads |-> NoNotif]
    /\ creds' = [p \in Tasks |-> None]
    /\ deviceId' = None
    /\ listenerThread' = None
    /\ UNCHANGED << now, oauthVars, storeVars, registrations, histVars,
                    sensor >>

\* The notification-info storage is handed to the client by its caller
\* (lines 43, 64, 92) and is not the client's own: its credential record is
\* removed (the record is deleted to force a new registration) while no
\* call and no thread is between two of its steps.
CredentialsRemoved ==
    /\ credStore # None
    /\ \A p \in Procs : pc[p] \in {"idle", "none", "listening", "dead"}
    /\ credStore' = None
    /\ UNCHANGED << now, oauthVars, idStore, clientVars, pc, call, req, tok,
                    msg, notif, histVars, restarts, sensor >>

\* ------------------------------------------------ creating the client
\* OAuthService.createOAuthToken answering: the token of the password grant.
createOAuthToken == [id |-> 0, exp |-> now + TokenLifetime]

\* Mutant: the test of line 67 dropped, a client returned over any storage.
alreadyAuthed_Always(store) == TRUE

\* line 67: the storage handed in holds a token.
alreadyAuthed(store) == store # NoToken

\* create_already_authed is called with the token storage.
BeginCreateAlreadyAuthed(p) ==
    /\ p \in Tasks
    /\ pc[p] = "idle"
    /\ call' = [call EXCEPT ![p] = "create_already_authed"]
    /\ pc' = [pc EXCEPT ![p] = "authed"]
    /\ lastReturn' = NoReturn
    /\ UNCHANGED << now, oauthVars, storeVars, clientVars, req, tok, msg,
                    notif, delivered, callbacks, lastStop, ackOutcome,
                    restarts, sensor >>

\* lines 67-70: the storage is read; a client is constructed over it when
\* it holds a token, RuntimeError is raised when it holds none.
create_already_authed(p) ==
    /\ pc[p] = "authed"
    /\ lastReturn' =
          [call |-> "create_already_authed", status |-> None,
           value |-> IF alreadyAuthed(retrieveOAuthToken)
                     THEN "client" ELSE "RuntimeError"]
    /\ pc' = [pc EXCEPT ![p] = "idle"]
    /\ call' = [call EXCEPT ![p] = "none"]
    /\ UNCHANGED << now, oauthVars, storeVars, clientVars, req, tok, msg,
                    notif, delivered, callbacks, lastStop, ackOutcome,
                    restarts, sensor >>

\* create is called; line 47 constructs the client over the storage.
BeginCreate(p) ==
    /\ p \in Tasks
    /\ pc[p] = "idle"
    /\ call' = [call EXCEPT ![p] = "create"]
    /\ pc' = [pc EXCEPT ![p] = "grant"]
    /\ lastReturn' = NoReturn
    /\ UNCHANGED << now, oauthVars, storeVars, clientVars, req, tok, msg,
                    notif, delivered, callbacks, lastStop, ackOutcome,
                    restarts, sensor >>

\* line 48: the password-grant exchange; it answers with a token or raises,
\* and the exception leaves create.
CreateGrant(p) ==
    /\ pc[p] = "grant"
    /\ grants < MaxGrants
    /\ grants' = grants + 1
    /\ \/ /\ tok' = [tok EXCEPT ![p] = createOAuthToken]
          /\ pc' = [pc EXCEPT ![p] = "createstore"]
          /\ UNCHANGED << call, req, msg, notif, lastReturn >>
       \/ /\ Raise(p)
          /\ lastReturn' =
                [call |-> "create", status |-> None, value |-> "raised"]
    /\ UNCHANGED << now, tokenStore, refreshes, exchanges, storeVars,
                    clientVars, delivered, callbacks, lastStop, ackOutcome,
                    restarts, sensor >>

\* lines 49-50: the granted token is stored and the client returned.
CreateStore(p) ==
    /\ pc[p] = "createstore"
    /\ tokenStore' = storeOAuthToken(tok[p])
    /\ lastReturn' = [call |-> "create", status |-> None, value |-> "client"]
    /\ pc' = [pc EXCEPT ![p] = "idle"]
    /\ call' = [call EXCEPT ![p] = "none"]
    /\ tok' = [tok EXCEPT ![p] = NoToken]
    /\ UNCHANGED << now, refreshes, exchanges, grants, storeVars, clientVars,
                    req, msg, notif, delivered, callbacks, lastStop,
                    ackOutcome, restarts, sensor >>

\* ---------------------------------------------------------- the wifi sensor
\* sensor.py lines 7-12: the texts of the signal levels.
SIGNAL_TERRIBLE == "terrible"
SIGNAL_BAD == "bad"
SIGNAL_WEAK == "weak"
SIGNAL_GOOD == "good"
SIGNAL_EXCELENT == "excelent"
SIGNAL_UNKNOWN == "unknown"

\* What a Python function gives when it ends without a return statement.
PyNone == "None"

\* sensor.py line 42: _attr_options.
SensorOptions ==
    {SIGNAL_TERRIBLE, SIGNAL_BAD, SIGNAL_WEAK, SIGNAL_GOOD, SIGNAL_EXCELENT,
     SIGNAL_UNKNOWN}

\* The wirelessSignal values a DeviceInfo may carry.
WirelessSignals == 0..MaxSignal

\* sensor.py lines 71-83.  The else branch (line 83) is the expression
\* statement SIGNAL_UNKNOWN with no return: the function ends there and the
\* caller gets None.
getWirelessSignalText(wirelessSignal) ==
    CASE wirelessSignal = 0 -> SIGNAL_TERRIBLE
      [] wirelessSignal = 1 -> SIGNAL_BAD
      [] wirelessSignal = 2 -> SIGNAL_WEAK
      [] wirelessSignal = 3 -> SIGNAL_GOOD
      [] wirelessSignal = 4 -> SIGNAL_EXCELENT
      [] OTHER -> PyNone

\* BlueConWifiStrenghtSensor.__init__, line 43, with the DeviceInfo that
\* async_setup_entry fetched for the pairing.
ConstructedSensor(wirelessSignal) ==
    [wirelessSignal |-> wirelessSignal,
     native_value |-> getWirelessSignalText(wirelessSignal)]

\* async_update, line 68: the sensor is polled and asks for the DeviceInfo.
BeginAsyncUpdate(p) ==
    /\ p \in Tasks
    /\ pc[p] = "idle"
    /\ call' = [call EXCEPT ![p] = "async_update"]
    /\ req' = [req EXCEPT ![p] = EndpointOf("getDeviceInfo")]
    /\ pc' = [pc EXCEPT ![p] = "retrieve"]
    /\ lastReturn' = NoReturn
    /\ UNCHANGED << now, oauthVars, storeVars, clientVars, tok, msg, notif,
                    delivered, callbacks, lastStop, ackOutcome, restarts,
                    sensor >>

\* async_update, lines 68-69: getDeviceInfo answers.  With status 200 the
\* native value is set from the DeviceInfo's wirelessSignal; with any other
\* status getDeviceInfo returns None and line 69 raises AttributeError
\* before it assigns; a request that fails in transport raises as well.
AsyncUpdateResponse(p) ==
    /\ p \in Tasks
    /\ pc[p] = "http"
    /\ call[p] = "async_update"
    /\ \/ /\ \E status \in HttpStatuses :
                /\ lastReturn' =
                      [call |-> "async_update", status |-> status,
                       value |-> IF getDeviceInfoReturn(status) = "DeviceInfo"
                                 THEN "updated" ELSE "AttributeError"]
                /\ IF getDeviceInfoReturn(status) = "DeviceInfo"
                   THEN \E w \in WirelessSignals :
                           sensor' =
                              [wirelessSignal |-> w,
                               native_value |-> getWirelessSignalText(w)]
                   ELSE UNCHANGED sensor
          /\ pc' = [pc EXCEPT ![p] = "idle"]
          /\ call' = [call EXCEPT ![p] = "none"]
          /\ req' = [req EXCEPT ![p] = "none"]
          /\ tok' = [tok EXCEPT ![p] = NoToken]
          /\ UNCHANGED << msg, notif >>
       \/ /\ Raise(p)
          /\ UNCHANGED << lastReturn, sensor >>
    /\ UNCHANGED << now, oauthVars, storeVars, clientVars, delivered,
                    callbacks, lastStop, ackOutcome, restarts >>

\* Time passes.  A token issued by the service outlives the store call that
\* follows its issue: the clock does not tick between lines 103 and 105.
Tick ==
    /\ now < MaxTime
    /\ \A p \in Procs : pc[p] # "store"
    /\ now' = now + 1
    /\ UNCHANGED << oauthVars, storeVars, clientVars, pc, call, req, tok,
                    msg, notif, histVars, restarts, sensor >>

\* ------------------------------------------------------------------- Init
Init ==
    /\ now = 0
    /\ tokenStore \in { [id |-> 0, exp |-> e] : e \in 0..1 }
    /\ refreshes = 0
    /\ exchanges = [i \in 0..MaxRefresh |-> 0]
    /\ grants = 0
    /\ credStore = None
    /\ idStore = {}
    /\ deviceId = None
    /\ listenerThread = None
    /\ registrations = 0
    /\ pc = [p \in Procs |-> IF p \in Tasks THEN "idle" ELSE "none"]
    /\ call = [p \in Procs |-> "none"]
    /\ req = [p \in Procs |-> "none"]
    /\ tok = [p \in Procs |-> NoToken]
    /\ msg = [p \in Threads |-> NoMsg]
    /\ notif = [p \in Threads |-> NoNotif]
    /\ creds = [p \in Tasks |-> None]
    /\ lastStop = "none"
    /\ lastReturn = NoReturn
    /\ delivered = <<>>
    /\ callbacks = [i \in PersistentIds |-> 0]
    /\ ackOutcome = [i \in PersistentIds |-> "none"]
    /\ restarts = 0
    /\ sensor = NoSensor

\* The state in which the factory methods are called: as Init, with a token
\* storage handed in by the caller that holds a token or holds none.
InitCreate ==
    /\ now = 0
    /\ tokenStore \in {NoToken} \cup { [id |-> 0, exp |-> e] : e \in 0..1 }
    /\ refreshes = 0
    /\ exchanges = [i \in 0..MaxRefresh |-> 0]
    /\ grants = 0
    /\ credStore = None
    /\ idStore = {}
    /\ deviceId = None
    /\ listenerThread = None
    /\ registrations = 0
    /\ pc = [p \in Procs |-> IF p \in Tasks THEN "idle" ELSE "none"]
    /\ call = [p \in Procs |-> "none"]
    /\ req = [p \in Procs |-> "none"]
    /\ tok = [p \in Procs |-> NoToken]
    /\ msg = [p \in Threads |-> NoMsg]
    /\ notif = [p \in Threads |-> NoNotif]
    /\ creds = [p \in Tasks |-> None]
    /\ lastStop = "none"
    /\ lastReturn = NoReturn
    /\ delivered = <<>>
    /\ callbacks = [i \in PersistentIds |-> 0]
    /\ ackOutcome = [i \in PersistentIds |-> "none"]
    /\ restarts = 0
    /\ sensor = NoSensor

\* The state in which the wifi sensor is polled: as Init, with the sensor
\* entity constructed from the DeviceInfo of its device.
InitSensor ==
    /\ now = 0
    /\ tokenStore \in { [id |-> 0, exp |-> e] : e \in 0..1 }
    /\ refreshes = 0
    /\ exchanges = [i \in 0..MaxRefresh |-> 0]
    /\ grants = 0
    /\ credStore = None
    /\ idStore = {}
    /\ deviceId = None
    /\ listenerThread = None
    /\ registrations = 0
    /\ pc = [p \in Procs |-> IF p \in Tasks THEN "idle" ELSE "none"]
    /\ call = [p \in Procs |-> "none"]
    /\ req = [p \in Procs |-> "none"]
    /\ tok = [p \in Procs |-> NoToken]
    /\ msg = [p \in Threads |-> NoMsg]
    /\ notif = [p \in Threads |-> NoNotif]
    /\ creds = [p \in Tasks |-> None]
    /\ lastStop = "none"
    /\ lastReturn = NoReturn
    /\ delivered = <<>>
    /\ callbacks = [i \in PersistentIds |-> 0]
    /\ ackOutcome = [i \in PersistentIds |-> "none"]
    /\ restarts = 0
    /\ \E w \in WirelessSignals : sensor = ConstructedSensor(w)

\* The call that drives the listener: registerAppToken,
\* startNotificationListener and stopNotificationListener are called one
\* after the other by the integration's setup and unload.
Driver == CHOOSE p \in Tasks : \A q \in Tasks : p <= q

\* No listener thread of this process is running.
NoLiveListener == \A t \in Threads : pc[t] \in {"none", "dead"}

\* The listener at work, started when none is running: startNotificationListener (with the registration
\* it makes on an empty store), the listener threads, the provider's
\* deliveries and process restarts.
Next ==
    \/ \E p \in Procs : GetOrRefreshRetrieve(p)
    \/ \E p \in Procs : GetOrRefreshUpdate(p)
    \/ \E p \in Procs : GetOrRefreshStore(p)
    \/ RegisterCredentials(Driver)
    \/ AppTokenResponse(Driver)
    \/ NoLiveListener /\ BeginStartNotificationListener(Driver)
    \/ SpawnListenerThread(Driver)
    \/ \E t \in Threads : listener_thread(t)
    \/ \E t \in Threads, m \in Messages : on_notification(t, m)
    \/ \E t \in Threads : RecordPersistentId(t)
    \/ \E t \in Threads : DecodeNotification(t)
    \/ \E t \in Threads : AckResponse(t)
    \/ \E t \in Threads : NotificationCallback(t)
    \/ Restart

Spec == Init /\ [][Next]_vars

\* The listener started again while one is running: every
\* startNotificationListener call creates a thread of its own, and the
\* provider delivers to every open connection.
NextListeners ==
    \/ \E p \in Procs : GetOrRefreshRetrieve(p)
    \/ \E p \in Procs : GetOrRefreshUpdate(p)
    \/ \E p \in Procs : GetOrRefreshStore(p)
    \/ RegisterCredentials(Driver)
    \/ AppTokenResponse(Driver)
    \/ BeginStartNotificationListener(Driver)
    \/ SpawnListenerThread(Driver)
    \/ \E t \in Threads : listener_thread(t)
    \/ \E t \in Threads, m \in Messages : on_notification(t, m)
    \/ \E t \in Threads : RecordPersistentId(t)
    \/ \E t \in Threads : DecodeNotification(t)
    \/ \E t \in Threads : AckResponse(t)
    \/ \E t \in Threads : NotificationCallback(t)

SpecListeners == Init /\ [][NextListeners]_vars

\* The client's life cycle: registerAppToken, startNotificationListener and
\* stopNotificationListener called in any order, any number of times, over
\* restarts, with a listener that handles a single message.
NextLifecycle ==
    \/ \E p \in Procs : GetOrRefreshRetrieve(p)
    \/ \E p \in Procs : GetOrRefreshUpdate(p)
    \/ \E p \in Procs : GetOrRefreshStore(p)
    \/ BeginRegisterAppToken(Driver)
    \/ RegisterCredentials(Driver)
    \/ AppTokenResponse(Driver)
    \/ BeginStartNotificationListener(Driver)
    \/ SpawnListenerThread(Driver)
    \/ stopNotificationListener(Driver)
    \/ \E t \in Threads : listener_thread(t)
    \/ \E t \in Threads, m \in Messages :
          delivered = <<>> /\ on_notification(t, m)
    \/ \E t \in Threads : RecordPersistentId(t)
    \/ \E t \in Threads : DecodeNotification(t)
    \/ \E t \in Threads : AckResponse(t)
    \/ \E t \in Threads : NotificationCallback(t)
    \/ Restart

SpecLifecycle == Init /\ [][NextLifecycle]_vars

\* Starting the listener over a storage whose credential record may be
\* removed between the calls: registerAppToken and
\* startNotificationListener in any order, over restarts.
NextStart ==
    \/ GetOrRefreshRetrieve(Driver)
    \/ GetOrRefreshUpdate(Driver)
    \/ GetOrRefreshStore(Driver)
    \/ BeginRegisterAppToken(Driver)
    \/ RegisterCredentials(Driver)
    \/ AppTokenResponse(Driver)
    \/ NoLiveListener /\ BeginStartNotificationListener(Driver)
    \/ SpawnListenerThread(Driver)
    \/ \E t \in Threads : listener_thread(t)
    \/ CredentialsRemoved
    \/ Restart

SpecStart == Init /\ [][NextStart]_vars

\* The steps that started work takes by itself: the event loop runs a call
\* that was begun to its end, a started thread runs, a request is answered
\* or fails.  The calls of the integration, the provider's deliveries and
\* restarts are not among them.
Progress ==
    \/ \E p \in Procs : GetOrRefreshRetrieve(p)
    \/ \E p \in Procs : GetOrRefreshUpdate(p)
    \/ \E p \in Procs : GetOrRefreshStore(p)
    \/ RegisterCredentials(Driver)
    \/ AppTokenResponse(Driver)
    \/ SpawnListenerThread(Driver)
    \/ \E t \in Threads : listener_thread(t)
    \/ \E t \in Threads : RecordPersistentId(t)
    \/ \E t \in Threads : DecodeNotification(t)
    \/ \E t \in Threads : AckResponse(t)
    \/ \E t \in Threads : NotificationCallback(t)

\* The life cycle with started work that keeps running.
SpecLifecycleFair == SpecLifecycle /\ WF_vars(Progress)

\* The authenticated calls of the async domain running concurrently with
\* each other and with one listener thread that handles a single "Call"
\* message, while time passes.
NextToken ==
    \/ \E p \in Procs : GetOrRefreshRetrieve(p)
    \/ \E p \in Procs : GetOrRefreshUpdate(p)
    \/ \E p \in Procs : GetOrRefreshStore(p)
    \/ \E p \in Tasks : BeginSimpleCall(p)
    \/ \E p \in Tasks : SimpleResponse(p)
    \/ \E p \in Tasks : BeginGetLastPicture(p)
    \/ \E p \in Tasks : GetLastPictureResponse(p)
    \/ \E p \in Tasks : BeginRegisterAppToken(p)
    \/ \E p \in Tasks : RegisterCredentials(p)
    \/ \E p \in Tasks : AppTokenResponse(p)
    \/ NoLiveListener /\ BeginStartNotificationListener(Driver)
    \/ SpawnListenerThread(Driver)
    \/ \E t \in Threads : listener_thread(t)
    \/ \E t \in Threads, m \in Messages :
          delivered = <<>> /\ m.type = "Call" /\ on_notification(t, m)
    \/ \E t \in Threads : RecordPersistentId(t)
    \/ \E t \in Threads : DecodeNotification(t)
    \/ \E t \in Threads : AckResponse(t)
    \/ \E t \in Threads : NotificationCallback(t)
    \/ Tick

SpecToken == Init /\ [][NextToken]_vars

\* The factory methods create and create_already_authed called over one
\* token storage, while time passes.
NextCreate ==
    \/ \E p \in Tasks : BeginCreateAlreadyAuthed(p)
    \/ \E p \in Tasks : create_already_authed(p)
    \/ \E p \in Tasks : BeginCreate(p)
    \/ \E p \in Tasks : CreateGrant(p)
    \/ \E p \in Tasks : CreateStore(p)
    \/ Tick

SpecCreate == InitCreate /\ [][NextCreate]_vars

\* The wifi sensor polled by Home Assistant while time passes: each poll is
\* one async_update over the client.
NextSensor ==
    \/ GetOrRefreshRetrieve(Driver)
    \/ GetOrRefreshUpdate(Driver)
    \/ GetOrRefreshStore(Driver)
    \/ BeginAsyncUpdate(Driver)
    \/ AsyncUpdateResponse(Driver)
    \/ Tick

SpecSensor == InitSensor /\ [][NextSensor]_vars
\* ============================================================== the claims
\* Threads that are handling no message.
Quiet == \A t \in Threads : pc[t] \in {"none", "starting", "listening", "dead"}

\* The persistent ids of the messages with a discriminator the builder
\* knows, and of those without.
Decodable ==
    { m.pid : m \in { x \in Messages : x.type \in {"Call", "CallEnd"} } }
Undecodable ==
    { m.pid : m \in { x \in Messages : x.type \notin {"Call", "CallEnd"} } }

\* No acknowledgment send of any message raised.
NoAckRaised ==
    \A i \in PersistentIds :
        ackOutcome[i] \notin {"refresh failed", "transport error"}

\* C1: the callback fires at most once per distinct persistent id, also
\* across restarts of the listener over the same store; and once decodable
\* messages with ids [a, a, b, a] were all handled (no restart, no failed
\* acknowledgment), it has fired exactly twice: once for a, once for b.
C1_OncePerId_TwiceForAABA ==
    /\ \A i \in PersistentIds : callbacks[i] <= 1
    /\ \A a \in Decodable, b \in Decodable :
          ( /\ a # b
            /\ delivered = << a, a, b, a >>
            /\ Quiet
            /\ restarts = 0
            /\ NoAckRaised )
          => (callbacks[a] = 1 /\ callbacks[b] = 1)

\* The message delivered by this step, when the step is a delivery.
IsDelivery == Len(delivered') = Len(delivered) + 1
DeliveredId == delivered'[Len(delivered')]

\* C2: a delivered message is discarded if and only if its persistent id is
\* a member of the stored ids; an id that is only a fragment of a stored id
\* is recorded and processed.
C2_DiscardIffMember ==
    [][IsDelivery => ((pc' = pc) <=> (DeliveredId \in idStore))]_vars

\* C3: the token __getOrRefreshOAuthToken returns, which the request of
\* every endpoint carries, is not expired when it is returned; when the
\* stored token was expired, the store then holds the token returned.
C3_ValidTokenAttached ==
    [][\A p \in Procs :
          (pc[p] # "http" /\ pc'[p] = "http") =>
             /\ req'[p] \in Endpoints
             /\ ~(isExpired(tok[p]))'
             /\ (pc[p] = "store" => tokenStore' = tok'[p])]_vars

\* C3 witness: an acknowledgment request carries a token that a refresh of
\* the expired initial token returned and stored.
C3_Witness ==
    \E p \in Procs :
        /\ pc[p] = "http"
        /\ req[p] = "ack"
        /\ tok[p].id > 0
        /\ tokenStore = tok[p]
        /\ exchanges[0] = 1

\* C4: no stored token is refreshed by more than one exchange, however the
\* callers that found it expired interleave.
C4_SingleFlight == \A i \in DOMAIN exchanges : exchanges[i] <= 1

\* The steps of on_notification after line 208.
AfterRecord == {"decode", "retrieve", "update", "store", "http", "callback"}

\* C5: while a thread decodes, acknowledges or calls back for a message,
\* the message's id is in the stored ids; and a delivery of an id that is in
\* the stored ids is dropped, whatever happened to the first delivery.
C5_RecordedBeforeProcessing ==
    [][/\ \A t \in Threads :
             pc'[t] \in AfterRecord => msg'[t].pid \in idStore'
       /\ (IsDelivery /\ DeliveredId \in idStore) => pc' = pc]_vars

\* C5 witness: the process was restarted while a message was being handled
\* after its id was recorded; the message was delivered again and dropped.
C5_Witness ==
    \E i \in Decodable :
        /\ restarts >= 1
        /\ i \in idStore
        /\ callbacks[i] = 0
        /\ ackOutcome[i] = "none"
        /\ Len(delivered) >= 2
        /\ delivered[Len(delivered)] = i
        /\ \E k \in 1..(Len(delivered) - 1) : delivered[k] = i
        /\ \E t \in Threads : pc[t] = "listening"
        /\ Quiet
\* The steps of on_notification after line 210.
AfterDecode == {"retrieve", "update", "store", "http", "callback"}

\* C6: a thread past the builder holds a CallNotification exactly for the
\* discriminator "Call" and a CallEndNotification exactly for "CallEnd";
\* for any other discriminator no notification is built and none reaches
\* the callback.
C6_DecodeByDiscriminator ==
    /\ \A t \in Threads :
          /\ pc[t] \in AfterDecode =>
                \/ msg[t].type = "Call" /\ notif[t].variant = "CallNotification"
                \/ /\ msg[t].type = "CallEnd"
                   /\ notif[t].variant = "CallEndNotification"
          /\ pc[t] \notin AfterDecode => notif[t] = NoNotif
    /\ \A i \in Undecodable : callbacks[i] = 0

\* C6 witness: a "Call" and a "CallEnd" message reached the callback and a
\* message with another discriminator was handled without one.
C6_Witness ==
    /\ callbacks[<<1>>] = 1
    /\ callbacks[<<1, 2>>] = 1
    /\ <<3>> \in idStore
    /\ callbacks[<<3>>] = 0
    /\ Quiet
    /\ restarts = 0

\* C7: the builder's failure on an unrecognized discriminator drops that
\* message only: the thread that decoded it is listening afterwards, never
\* terminated.
C7_DecodeErrorKeepsListening ==
    [][\A t \in Threads :
          ( /\ pc[t] = "decode"
            /\ msg[t].type \notin {"Call", "CallEnd"}
            /\ pc'[t] # "decode"
            /\ restarts' = restarts )
          => pc'[t] = "listening"]_vars

\* The callback was invoked for id i, or is the next step of a thread.
CallbackDelivered(i) ==
    \/ callbacks[i] >= 1
    \/ \E t \in Threads : pc[t] = "callback" /\ msg[t].pid = i

\* C8: a notification whose acknowledgment was answered with a status other
\* than 200 is still handed to the callback (in a process that keeps
\* running).
C8_CallbackAfterAckNot200 ==
    \A i \in PersistentIds :
        (restarts = 0 /\ ackOutcome[i] = "not 200") => CallbackDelivered(i)

\* C8 witness: the acknowledgment of a message was answered 500 and the
\* callback has been invoked for it.
C8_Witness ==
    \E i \in PersistentIds :
        /\ restarts = 0
        /\ ackOutcome[i] = "not 200"
        /\ callbacks[i] = 1
        /\ Quiet

\* C9: a notification whose acknowledgment send failed in any way (transport
\* exception, token refresh failure) is still handed to the callback, and
\* the listener thread is not terminated by it.
C9_AckFailureNotFatal ==
    \A i \in PersistentIds :
        (restarts = 0 /\ ackOutcome[i] \in {"transport error", "refresh failed"})
        => /\ CallbackDelivered(i)
           /\ \A t \in Threads : pc[t] # "dead"

StopReports == lastStop' # lastStop

\* C11: on a client whose listener was started, a stopNotificationListener
\* call reports false when the listener thread has terminated by the end of
\* the wait and true when it is still alive; it does not raise, and it
\* leaves every thread where it was.
C11_StopReportsAliveness ==
    [][(StopReports /\ listenerThread # None) =>
          /\ lastStop' \in {"false", "true"}
          /\ (lastStop' = "false") <=> (pc[listenerThread] = "dead")
          /\ pc' = pc]_vars

\* C11 witness: the listener thread was ended by a failure while it handled
\* a message, and the stop call that followed reported false.
C11_Witness ==
    /\ listenerThread # None
    /\ pc[listenerThread] = "dead"
    /\ lastStop = "false"
    /\ delivered # <<>>

\* ------------------------------------------------------------------- C12
\* C12: once stopNotificationListener was called on a client whose listener
\* thread is listening (the call reported it alive), that thread eventually
\* is not running any more.
C12_StopLeadsToStopped ==
    \A t \in Threads :
        (lastStop = "true" /\ listenerThread = t /\ pc[t] = "listening")
        ~> (pc[t] \in {"none", "dead"})

\* ------------------------------------------------------------------- C13
\* Process p begins startNotificationListener in this step.
StartBegins(p) ==
    call[p] = "none" /\ call'[p] = "startNotificationListener"

\* Thread t opens the provider connection in this step (lines 191-198).
OpensConnection(t) == pc[t] = "starting" /\ pc'[t] = "listening"

\* C13: a startNotificationListener call that finds no stored credentials
\* goes to the provider registration first, and a listener thread that
\* opens the connection reads non-null credentials from the store, whatever
\* the device token in memory is.
C13_OpensWithStoredCredentials ==
    [][/\ \A p \in Tasks :
             (StartBegins(p) /\ credStore = None) => pc'[p] = "register"
       /\ \A t \in Threads : OpensConnection(t) => credStore # None]_vars

\* ------------------------------------------------------------------- C14
\* The listener threads of this process that are running.
LiveListeners == { t \in Threads : pc[t] \notin {"none", "dead"} }

\* C14: at most one listener thread of a client is running, and no
\* persistent id is past the seen-set check in two threads or reaches the
\* callback twice.
C14_OneLiveListener ==
    /\ Cardinality(LiveListeners) <= 1
    /\ \A t \in Threads, u \in Threads :
          (t # u /\ msg[t] # NoMsg /\ msg[u] # NoMsg)
          => msg[t].pid # msg[u].pid
    /\ \A i \in PersistentIds : callbacks[i] <= 1

\* ------------------------------------------------------------------- C15
\* Thread t takes up a delivered message in this step.
TakesUp(t) == IsDelivery /\ pc[t] # "record" /\ pc'[t] = "record"

\* Thread t invokes the callback in this step.
CallsBack(t) == pc[t] = "callback" /\ callbacks' # callbacks

\* C15: a listener thread takes up a delivered message only when it holds
\* no other message (the callback of the message before has returned, or
\* that message was dropped), and the callback it invokes is for the id
\* delivered last to the connection.
C15_DeliveryOrder ==
    [][\A t \in Threads :
          /\ TakesUp(t) => (pc[t] = "listening" /\ msg[t] = NoMsg)
          /\ CallsBack(t) =>
                /\ callbacks'[msg[t].pid] = callbacks[msg[t].pid] + 1
                /\ delivered[Len(delivered)] = msg[t].pid]_vars

\* C15 witness: "1" was delivered before "12" on one connection and both
\* reached the callback.
C15_Witness ==
    /\ delivered = << <<1>>, <<1, 2>> >>
    /\ callbacks[<<1>>] = 1
    /\ callbacks[<<1, 2>>] = 1
    /\ restarts = 0
    /\ Quiet

\* ------------------------------------------------------------------- C16
\* The refresh exchange of process p fails in this step.
RefreshFails(p) ==
    /\ pc[p] = "update"
    /\ pc'[p] \notin {"update", "store"}
    /\ restarts' = restarts

\* C16: when the refresh exchange of an authenticated call fails, the call
\* ends there with the failure: its request is not sent, no second exchange
\* is made for it, and the stored token stays as it was.
C16_RefreshFailureRaised ==
    [][\A p \in Procs :
          RefreshFails(p) =>
             /\ pc'[p] \in {"idle", "listening", "dead"}
             /\ p \in Tasks => pc'[p] = "idle"
             /\ call'[p] = "none"
             /\ req'[p] = "none"
             /\ tok'[p] = NoToken
             /\ refreshes' = refreshes + 1
             /\ tokenStore' = tokenStore]_vars

\* C16 witness: the one refresh exchange made so far failed: it was made
\* for the initial token, which is still the stored one, and no call holds
\* a token or waits for one.
C16_Witness ==
    /\ refreshes = 1
    /\ exchanges[0] = 1
    /\ tokenStore.id = 0
    /\ \A p \in Procs : tok[p] = NoToken /\ pc[p] \in {"idle", "none"}

\* ------------------------------------------------------------------- C17
\* Thread t stores the id of its message in this step (line 208).
Records(t) == pc[t] = "record" /\ pc'[t] = "decode"

\* C17: the stored persistent ids only grow; a delivered message whose id
\* is not among them is taken up, and the step that records it adds
\* exactly its id.
C17_SeenSetAppendOnly ==
    [][/\ idStore \subseteq idStore'
       /\ (IsDelivery /\ DeliveredId \notin idStore) =>
             \E t \in Threads :
                 pc'[t] = "record" /\ msg'[t].pid = DeliveredId
       /\ \A t \in Threads :
             Records(t) => idStore' = idStore \cup {msg[t].pid}]_vars

\* ------------------------------------------------------------------- C18
\* C18: an openDoor call whose request was answered returned true exactly
\* for status 200 and false for any other status; a getDeviceInfo call
\* returned a DeviceInfo exactly for status 200 and None for any other.
C18_ReturnByStatus ==
    /\ lastReturn.call = "openDoor" =>
          /\ lastReturn.value \in {"true", "false"}
          /\ (lastReturn.value = "true") <=> (lastReturn.status = 200)
    /\ lastReturn.call = "getDeviceInfo" =>
          /\ lastReturn.value \in {"DeviceInfo", "None"}
          /\ (lastReturn.value = "DeviceInfo") <=> (lastReturn.status = 200)

\* C18 witness: an openDoor request was answered with a status other than
\* 200 and the call returned false.
C18_Witness ==
    /\ lastReturn.call = "openDoor"
    /\ lastReturn.status # 200
    /\ lastReturn.value = "false"

\* ------------------------------------------------------------------- C19
\* The steps in which a thread obtains the token for the acknowledgment.
AckTokenSteps == {"retrieve", "update", "store"}

\* Thread t leaves the token steps of an acknowledgment in this step, in a
\* process that goes on running.
LeavesAckToken(t) ==
    /\ notif[t].ack
    /\ pc[t] \in AckTokenSteps
    /\ pc'[t] \notin AckTokenSteps
    /\ restarts' = restarts

\* Thread t sends the acknowledgment request in this step.
SendsAck(t) ==
    pc[t] \in AckTokenSteps /\ pc'[t] = "http" /\ restarts' = restarts

\* The acknowledgment request for id i was sent and has ended.
AckSent(i) == ackOutcome[i] \in {"200", "not 200", "transport error"}

\* What holds of the acknowledgment whether or not its token is obtained:
\* after the builder the acknowledgment is begun exactly for a notification
\* that requires it; a request is sent only for such a notification, before
\* the callback and when none was sent for the id before; and the callback
\* of a notification that requires none is invoked without one.
AckOnlyIfRequired(t) ==
    /\ (pc[t] = "decode" /\ pc'[t] \in AfterDecode) =>
          (pc'[t] = "retrieve") <=> notif'[t].ack
    /\ SendsAck(t) =>
          /\ notif[t].ack
          /\ req'[t] = "ack"
          /\ callbacks[msg[t].pid] = 0
          /\ ~AckSent(msg[t].pid)
    /\ CallsBack(t) =>
          (notif[t].ack <=> ackOutcome[msg[t].pid] \in {"200", "not 200"})

AlreadyAuthedStep(p) ==
    /\ pc'[p] # pc[p]
    /\ call[p] = "create_already_authed" \/ call'[p] = "create_already_authed"

C20_CreateAndAlreadyAuthed ==
    [][/\ \A p \in Tasks :
            /\ AlreadyAuthedStep(p) => UNCHANGED oauthVars
            /\ (pc[p] = "authed" /\ pc'[p] = "idle") =>
                  /\ lastReturn'.call = "create_already_authed"
                  /\ (lastReturn'.value = "client") <=> (tokenStore # NoToken)
                  /\ (lastReturn'.value = "RuntimeError")
                        <=> (tokenStore = NoToken)
            /\ (call[p] = "create") => pc[p] \in {"grant", "createstore"}
            /\ (call[p] # "create" /\ call'[p] = "create") =>
                  /\ pc'[p] = "grant"
                  /\ UNCHANGED oauthVars
            /\ (pc[p] = "grant" /\ pc'[p] # "grant") =>
                  /\ grants' = grants + 1
                  /\ tokenStore' = tokenStore
                  /\ \/ pc'[p] = "createstore" /\ tok'[p] # NoToken
                     \/ /\ pc'[p] = "idle"
                        /\ lastReturn' = [call |-> "create", status |-> None,
                                          value |-> "raised"]
            /\ (pc[p] # "createstore" /\ pc'[p] = "createstore") =>
                  pc[p] = "grant"
            /\ (pc[p] = "createstore" /\ pc'[p] # "createstore") =>
                  /\ grants' = grants
                  /\ tokenStore' = tok[p]
                  /\ lastReturn'.value = "client"
       /\ grants' # grants =>
             \E p \in Tasks : pc[p] = "grant" /\ pc'[p] # "grant"
       /\ tokenStore' # tokenStore =>
             \E p \in Tasks : pc[p] = "createstore" /\ pc'[p] = "idle"
      ]_vars

\* create_already_authed has raised over a storage that holds no token
\* after a create whose exchange failed.
C20_Witness ==
    /\ tokenStore = NoToken
    /\ grants = 1
    /\ lastReturn = [call |-> "create_already_authed", status |-> None,
                     value |-> "RuntimeError"]

\* C21: a stopNotificationListener call on a client whose listener was
\* never started, or whose listener thread has ended, reports false (not
\* still alive) and does not fail.
NoListenerToStop ==
    \/ listenerThread = None
    \/ /\ listenerThread # None
       /\ pc[listenerThread] \in {"none", "dead"}

C21_StopSafeWithoutListener ==
    [][(StopReports /\ NoListenerToStop) => lastStop' = "false"]_vars

\* C22: the wifi sensor's native value is one of the six declared options
\* after construction and after every async_update: terrible, bad, weak,
\* good, excelent for the signal levels 0 to 4, and unknown for every other
\* value of wirelessSignal.
DeclaredText(w) ==
    CASE w = 0 -> "terrible"
      [] w = 1 -> "bad"
      [] w = 2 -> "weak"
      [] w = 3 -> "good"
      [] w = 4 -> "excelent"
      [] OTHER -> "unknown"

C22_NativeValueDeclared ==
    sensor # NoSensor =>
       /\ sensor.native_value \in SensorOptions
       /\ sensor.native_value = DeclaredText(sensor.wirelessSignal)

====
